---- MODULE Spec2Model ----
(***************************************************************************)
(* casemk: layout engines for divided storage cases.                       *)
(*                                                                         *)
(* Lengths are whole millimetres.  An Optional[T] value of the source is a *)
(* sequence of length 0 (None) or 1 / 2 (the value, or the pair).          *)
(***************************************************************************)
EXTENDS Integers, Sequences, FiniteSets, TLC

VARIABLES
    cfg,            \* the Config object
    pc,             \* where the caller stands: new, validated, config_error,
                    \* grid_done, grid_error, mixed_loop, mixed_done,
                    \* mixed_oversize, mixed_nofit
    item,           \* compute_grid_layout: item_dims
    count,          \* compute_grid_layout: count (Optional[int])
    items,          \* compute_mixed_layout: items
    expanded,       \* compute_mixed_layout: expanded, after the sort
    idx,            \* compute_mixed_layout: position of the for loop in expanded
    slots,          \* the slot list being built / returned
    row_x, row_y, row_height, max_x_used, max_y_used,   \* packing cursors
    cols, rows, cell_width, cell_length, cell_height,   \* GridLayoutResult
    total_width, total_length,                          \* both results
    outer_x, outer_y,   \* build_base_tray: footprint of the outer box
    cavities,           \* build_base_tray: footprint of each cavity cut
    text_sizes          \* build_base_tray: size of each engraved text, 1/360 mm

vars == <<cfg, pc, item, count, items, expanded, idx, slots, row_x, row_y,
          row_height, max_x_used, max_y_used, cols, rows, cell_width,
          cell_length, cell_height, total_width, total_length, outer_x,
          outer_y, cavities, text_sizes>>

mixedVars == <<items, expanded, idx, row_x, row_y, row_height, max_x_used,
               max_y_used>>
gridVars  == <<item, count, cols, rows, cell_width, cell_length, cell_height>>
trayVars  == <<outer_x, outer_y, cavities, text_sizes>>

----------------------------------------------------------------------------
(* Bounds of the inputs *)

MaxDim   == 2    \* item width and length range over 1..MaxDim
MaxCount == 3    \* the grid's count ranges over -1..MaxCount

Max(a, b) == IF a >= b THEN a ELSE b
Min(a, b) == IF a <= b THEN a ELSE b

None == <<>>

\* "WxL" items: parse_dimensions gives them height = width
ItemDims == {<<w, l, w>> : w \in 1..MaxDim, l \in 1..MaxDim}
GridCounts == {None} \cup {<<n>> : n \in (-1)..MaxCount}

\* item dicts; range(count) is empty for count = 0
Labels == {None, <<"A">>, <<"ABC">>}
\* len() of a label text
TextLen(t) == IF t = "A" THEN 1 ELSE 3
ItemSpecs ==
    {[width |-> d[1], length |-> d[2], height |-> d[3], count |-> n,
      label |-> lb] : d \in ItemDims, n \in {0, 1, 2}, lb \in Labels}
ItemLists == UNION {[1..n -> ItemSpecs] : n \in {0, 1, 2}}

\* max_footprint is not checked against the walls; case_size is
Footprints == {<<1, 1>>, <<7, 6>>, <<9, 11>>}
CaseSizes  == {None, <<2, 2>>, <<4, 7>>}
Configs ==
    [max_footprint : Footprints, case_size : CaseSizes, clearance : {0, 1},
     wall_thickness : {1}, divider_thickness : {1, 2}, corner_radius : {0, 1},
     label_size : {None, <<3, 2>>}, label_dir : {"X", "Y"},
     label_text_size : {4}]

\* configurations for the engraved text: label areas large and small
\* against text sizes of 1, 3 and 4 mm
TextConfigs ==
    [max_footprint : {<<9, 11>>}, case_size : {None}, clearance : {0},
     wall_thickness : {1}, divider_thickness : {1}, corner_radius : {0},
     label_size : {<<3, 2>>, <<4, 6>>}, label_dir : {"X", "Y"},
     label_text_size : {1, 3, 4}]

----------------------------------------------------------------------------
(* config.py *)

ValidateOK(c) ==
    /\ c.max_footprint[1] > 0 /\ c.max_footprint[2] > 0
    /\ c.case_size # None =>
          /\ c.case_size[1] > 0 /\ c.case_size[2] > 0
          /\ c.case_size[1] - 2 * c.wall_thickness > 0
          /\ c.case_size[2] - 2 * c.wall_thickness > 0
    /\ c.clearance >= 0
    /\ c.wall_thickness > 0
    /\ c.divider_thickness > 0
    /\ c.corner_radius >= 0
    /\ c.label_size # None => (c.label_size[1] > 0 /\ c.label_size[2] > 0)
    /\ c.label_dir \in {"X", "Y"}
    /\ c.label_text_size > 0

max_x(c) == IF c.case_size # None THEN c.case_size[1] ELSE c.max_footprint[1]
max_y(c) == IF c.case_size # None THEN c.case_size[2] ELSE c.max_footprint[2]

----------------------------------------------------------------------------
(* layout.py: the usable inner area, computed alike by both engines *)

CornerInset(c) == c.corner_radius + 1

InnerOf(outer, c) ==
    IF c.corner_radius > 0
    THEN Max(0, (outer - 2 * c.wall_thickness) - 2 * CornerInset(c))
    ELSE outer - 2 * c.wall_thickness

inner_x(c) == InnerOf(max_x(c), c)
inner_y(c) == InnerOf(max_y(c), c)

----------------------------------------------------------------------------
(* layout.py: compute_grid_layout *)

Slot(x, y, w, l, h, lw, ll, lt) ==
    [x |-> x, y |-> y, width |-> w, length |-> l, height |-> h,
     label_width |-> lw, label_length |-> ll, label_text |-> lt]

\* line 79: the test that raises the oversize error
GridOversize(cell_w, cell_l, c) == cell_w > inner_x(c) \/ cell_l > inner_y(c)

\* lines 86-89; int() of a non-negative quotient is its floor
try_layout(cw, cl, c) ==
    <<Max(1, (inner_x(c) + c.divider_thickness) \div (cw + c.divider_thickness)),
      Max(1, (inner_y(c) + c.divider_thickness) \div (cl + c.divider_thickness))>>

\* lines 97-102: TRUE when the un-swapped orientation is kept
KeepUnswapped(cells_a, cells_b) == cells_a >= cells_b

\* the cap forgotten
TotalCells_uncapped(capacity, cnt) == capacity

\* lines 104-106
TotalCells(capacity, cnt) ==
    IF cnt # None THEN Min(capacity, cnt[1]) ELSE capacity

\* the ceiling taken as a floor
CappedRows_floor(total_cells, ncols) == total_cells \div ncols

\* line 108; // is floor division, as \div
CappedRows(total_cells, ncols) == (total_cells + ncols - 1) \div ncols

\* line 114
ColsThisRow(row, ncols, total_cells) ==
    IF (row + 1) * ncols <= total_cells THEN ncols ELSE total_cells - row * ncols

\* lines 116-121: the slots of one row (row counted from 0)
GridRow(row, n, cw, cl, ch, div) ==
    [k \in 1..n |-> Slot((k - 1) * (cw + div), row * (cl + div), cw, cl, ch,
                         None, None, None)]

\* lines 111-121
GridSlots(nrows, ncols, total_cells, cw, cl, ch, div) ==
    LET upto[r \in 0..Max(0, nrows)] ==
            IF r = 0 THEN <<>>
            ELSE upto[r - 1] \o
                 GridRow(r - 1, ColsThisRow(r - 1, ncols, total_cells),
                         cw, cl, ch, div)
    IN upto[Max(0, nrows)]

\* line 115 over the loop: the widest row
ActualCols(nrows, ncols, total_cells) ==
    LET widest[r \in 0..Max(0, nrows)] ==
            IF r = 0 THEN 0
            ELSE Max(widest[r - 1], ColsThisRow(r - 1, ncols, total_cells))
    IN widest[Max(0, nrows)]

SlotRight(s)  == s.x + s.width
SlotBottom(s) == s.y + s.length

\* lines 125-126: max() over the slots
MaxSlotX(ss) ==
    CHOOSE m \in {SlotRight(ss[k]) : k \in 1..Len(ss)} :
        \A k \in 1..Len(ss) : SlotRight(ss[k]) <= m
MaxSlotY(ss) ==
    CHOOSE m \in {SlotBottom(ss[k]) : k \in 1..Len(ss)} :
        \A k \in 1..Len(ss) : SlotBottom(ss[k]) <= m

\* lines 65-142, the path that returns
GridResult(itm, cnt, c) ==
    LET cell_w == itm[1] + c.clearance
        cell_l == itm[2] + c.clearance
        cell_h == itm[3] + c.clearance
        a == try_layout(cell_w, cell_l, c)
        b == try_layout(cell_l, cell_w, c)
        keep == KeepUnswapped(a[1] * a[2], b[1] * b[2])
        ncols == IF keep THEN a[1] ELSE b[1]
        nrows0 == IF keep THEN a[2] ELSE b[2]
        cw == IF keep THEN cell_w ELSE cell_l
        cl == IF keep THEN cell_l ELSE cell_w
        total_cells == TotalCells(ncols * nrows0, cnt)
        nrows == IF cnt # None THEN CappedRows(total_cells, ncols) ELSE nrows0
        ss == GridSlots(nrows, ncols, total_cells, cw, cl, cell_h,
                        c.divider_thickness)
    IN [cols |-> ActualCols(nrows, ncols, total_cells), rows |-> nrows,
        cell_width |-> cw, cell_length |-> cl, cell_height |-> cell_h,
        slots |-> ss,
        total_width  |-> IF ss # <<>> THEN MaxSlotX(ss) ELSE cw,
        total_length |-> IF ss # <<>> THEN MaxSlotY(ss) ELSE cl]

----------------------------------------------------------------------------
(* layout.py: compute_mixed_layout *)

label_w(c) == IF c.label_size = None THEN 0 ELSE c.label_size[1]
label_l(c) == IF c.label_size = None THEN 0 ELSE c.label_size[2]
label_dir_x(c) == c.label_dir = "X"

Entry(it, c) ==
    [cw |-> it.width + c.clearance, cl |-> it.length + c.clearance,
     ch |-> it.height + c.clearance, label_text |-> it.label]

\* lines 172-173: range(cnt) is empty for cnt <= 0
Repeat(e, n) == [k \in 1..n |-> e]

\* lines 162-173
Expand(its, c) ==
    LET upto[n \in 0..Len(its)] ==
            IF n = 0 THEN <<>>
            ELSE upto[n - 1] \o Repeat(Entry(its[n], c), its[n].count)
    IN upto[Len(its)]

SortKey(e) == e.cw * e.cl

\* an unstable sort: e goes before the entries of equal area
InsertPos_unstable(s, e) ==
    IF \E k \in 1..Len(s) : SortKey(s[k]) <= SortKey(e)
    THEN CHOOSE k \in 1..Len(s) :
            /\ SortKey(s[k]) <= SortKey(e)
            /\ \A j \in 1..(k - 1) : SortKey(s[j]) > SortKey(e)
    ELSE Len(s) + 1

\* where a stable descending sort puts e among the already sorted s
InsertPos(s, e) ==
    IF \E k \in 1..Len(s) : SortKey(s[k]) < SortKey(e)
    THEN CHOOSE k \in 1..Len(s) :
            /\ SortKey(s[k]) < SortKey(e)
            /\ \A j \in 1..(k - 1) : SortKey(s[j]) >= SortKey(e)
    ELSE Len(s) + 1

\* line 176: list.sort(key, reverse=True) is stable
SortDesc(s) ==
    LET upto[n \in 0..Len(s)] ==
            IF n = 0 THEN <<>>
            ELSE LET prev == upto[n - 1]
                     p == InsertPos(prev, s[n])
                 IN SubSeq(prev, 1, p - 1) \o <<s[n]>> \o
                    SubSeq(prev, p, Len(prev))
    IN upto[Len(s)]

has_label(e) == e.label_text # None

\* the label below taken to be no wider than its cell
x_advance_narrow(e, c) ==
    IF has_label(e) /\ label_dir_x(c)
    THEN e.cw + c.divider_thickness + label_w(c) + c.divider_thickness
    ELSE e.cw + c.divider_thickness

\* lines 198-208
x_advance(e, c) ==
    IF has_label(e) /\ label_dir_x(c)
    THEN e.cw + c.divider_thickness + label_w(c) + c.divider_thickness
    ELSE IF has_label(e)
         THEN Max(e.cw, label_w(c)) + c.divider_thickness
         ELSE e.cw + c.divider_thickness

effective_cl(e, c) ==
    IF has_label(e) /\ label_dir_x(c)
    THEN Max(e.cl, label_l(c))
    ELSE IF has_label(e)
         THEN e.cl + c.divider_thickness + label_l(c)
         ELSE e.cl

\* lines 210-211
MixedOversize(e, c) ==
    \/ x_advance(e, c) - c.divider_thickness > inner_x(c)
    \/ effective_cl(e, c) > inner_y(c)

\* line 218
FitsCurrentRow(e, c, rx, ry) ==
    /\ rx + x_advance(e, c) <= inner_x(c) + c.divider_thickness
    /\ effective_cl(e, c) <= inner_y(c) - ry

\* the vertical check of a new row left out
RowOverflows_never(e, c, ry) == FALSE

\* line 238
RowOverflows(e, c, ry) == ry + effective_cl(e, c) > inner_y(c)

\* lines 229-231 and 250-252: the right edge of what was just placed
slot_right(e, c, rx) ==
    IF has_label(e) /\ label_dir_x(c)
    THEN rx - c.divider_thickness - c.divider_thickness
    ELSE rx - c.divider_thickness

\* lines 196-197, 220-225, 242-247
MixedSlot(e, c, x, y) ==
    Slot(x, y, e.cw, e.cl, e.ch,
         IF has_label(e) THEN <<label_w(c)>> ELSE None,
         IF has_label(e) THEN <<label_l(c)>> ELSE None,
         e.label_text)

----------------------------------------------------------------------------
(* geometry.py: build_base_tray, where it puts a slot's label rectangle.   *)
(* Coordinates are relative to the usable-area origin and doubled, since   *)
(* a label below a wider slot is centred: (slot.width - label_w) / 2.      *)

SlotRect2(s) ==
    [x0 |-> 2 * s.x, x1 |-> 2 * (s.x + s.width),
     y0 |-> 2 * s.y, y1 |-> 2 * (s.y + s.length)]

\* line 78: slots without a label area carry no label
HasLabelArea(s) == s.label_text # None /\ s.label_width # None

\* lines 80-89
LabelRect2(s, c) ==
    IF label_dir_x(c)
    THEN LET lx == 2 * (s.x + s.width + c.divider_thickness)
             ly == 2 * s.y
         IN [x0 |-> lx, x1 |-> lx + 2 * label_w(c),
             y0 |-> ly, y1 |-> ly + 2 * label_l(c)]
    ELSE LET lx == 2 * s.x + Max(0, s.width - label_w(c))
             ly == 2 * (s.y + s.length + c.divider_thickness)
         IN [x0 |-> lx, x1 |-> lx + 2 * label_w(c),
             y0 |-> ly, y1 |-> ly + 2 * label_l(c)]

\* lines 33-44: the footprint of the outer box
OuterX(tw, c) ==
    IF c.case_size # None THEN c.case_size[1]
    ELSE tw + 2 * c.wall_thickness
         + 2 * (IF c.corner_radius > 0 THEN c.corner_radius + 1 ELSE 0)
OuterY(tl, c) ==
    IF c.case_size # None THEN c.case_size[2]
    ELSE tl + 2 * c.wall_thickness
         + 2 * (IF c.corner_radius > 0 THEN c.corner_radius + 1 ELSE 0)

\* line 56
cavity_inset(c) == IF c.corner_radius > 0 THEN c.corner_radius + 1 ELSE 0

\* lines 58-62: the footprint of the box cut out for a slot
Cavity(s, c) ==
    LET cx == c.wall_thickness + cavity_inset(c) + s.x
        cy == c.wall_thickness + cavity_inset(c) + s.y
    IN [x0 |-> cx, x1 |-> cx + s.width, y0 |-> cy, y1 |-> cy + s.length]

\* Text sizes are counted in 1/360 mm, which makes margin = 0.85 = 306/360
\* and margin / char_width_ratio = 0.85 / 0.6 = 510/360 whole numbers.
TextUnit == 360
Margin360 == 306
MarginPerChar360 == 510
MinText360 == 900

\* line 94
n_chars(s) == Max(TextLen(s.label_text[1]), 1)

\* lines 95-100; n_chars divides 510 for the texts drawn
size_by_height(s, c) ==
    IF label_dir_x(c) THEN (label_l(c) * MarginPerChar360) \div n_chars(s)
    ELSE label_l(c) * Margin360
size_by_width(s, c) ==
    IF label_dir_x(c) THEN label_w(c) * Margin360
    ELSE (label_w(c) * MarginPerChar360) \div n_chars(s)

\* the larger taken where the code takes the smaller
text_size_larger(s, c) ==
    Max(Max(c.label_text_size * TextUnit,
            Min(size_by_height(s, c), size_by_width(s, c))),
        MinText360)

\* lines 101-102
text_size(s, c) ==
    Max(Min(c.label_text_size * TextUnit,
            Min(size_by_height(s, c), size_by_width(s, c))),
        MinText360)

\* lines 76-116: one text for every slot that carries a label
LabelTextSizes(ss, c) ==
    LET upto[n \in 0..Len(ss)] ==
            IF n = 0 THEN <<>>
            ELSE IF HasLabelArea(ss[n])
                 THEN Append(upto[n - 1], text_size(ss[n], c))
                 ELSE upto[n - 1]
    IN upto[Len(ss)]

----------------------------------------------------------------------------
(* The caller: construct a Config, validate it, call one engine *)

InitWith(configs) ==
    /\ cfg \in configs
    /\ pc = "new"
    /\ item = <<1, 1, 1>> /\ count = None
    /\ items = <<>> /\ expanded = <<>> /\ idx = 0
    /\ slots = <<>>
    /\ row_x = 0 /\ row_y = 0 /\ row_height = 0
    /\ max_x_used = 0 /\ max_y_used = 0
    /\ cols = 0 /\ rows = 0
    /\ cell_width = 0 /\ cell_length = 0 /\ cell_height = 0
    /\ total_width = 0 /\ total_length = 0
    /\ outer_x = 0 /\ outer_y = 0 /\ cavities = <<>> /\ text_sizes = <<>>

Init == InitWith(Configs)

\* Config.validate
Validate ==
    /\ pc = "new"
    /\ pc' = IF ValidateOK(cfg) THEN "validated" ELSE "config_error"
    /\ UNCHANGED <<cfg, slots, total_width, total_length>>
    /\ UNCHANGED mixedVars /\ UNCHANGED gridVars /\ UNCHANGED trayVars

\* compute_grid_layout(item_dims, config, count)
GridLayout ==
    /\ pc = "validated"
    /\ \E itm \in ItemDims, cnt \in GridCounts :
          /\ item' = itm
          /\ count' = cnt
          /\ IF GridOversize(itm[1] + cfg.clearance, itm[2] + cfg.clearance, cfg)
             THEN /\ pc' = "grid_error"
                  /\ UNCHANGED <<slots, cols, rows, cell_width, cell_length,
                                 cell_height, total_width, total_length>>
             ELSE LET res == GridResult(itm, cnt, cfg)
                  IN /\ pc' = "grid_done"
                     /\ slots' = res.slots
                     /\ cols' = res.cols
                     /\ rows' = res.rows
                     /\ cell_width' = res.cell_width
                     /\ cell_length' = res.cell_length
                     /\ cell_height' = res.cell_height
                     /\ total_width' = res.total_width
                     /\ total_length' = res.total_length
    /\ UNCHANGED cfg /\ UNCHANGED mixedVars /\ UNCHANGED trayVars

\* compute_mixed_layout(items, config): lines 158-192, up to the loop
StartMixed(its) ==
    /\ items' = its
    /\ expanded' = SortDesc(Expand(its, cfg))
    /\ idx' = 1
    /\ slots' = <<>>
    /\ row_x' = 0 /\ row_y' = 0 /\ row_height' = 0
    /\ max_x_used' = 0 /\ max_y_used' = 0
    /\ pc' = "mixed_loop"
    /\ UNCHANGED <<cfg, total_width, total_length>>
    /\ UNCHANGED gridVars /\ UNCHANGED trayVars

\* a library caller (examples/example_usage.py) calls the engine directly
MixedCall ==
    /\ pc = "validated"
    /\ \E its \in ItemLists : StartMixed(its)

\* cli.py line 189: a label asked for and no --label-size
LabelSizeMissing(its, c) ==
    (\E k \in 1..Len(its) : its[k].label # None) /\ c.label_size = None

\* cli.py lines 188-191: main checks the labels, then calls the engine;
\* parser.error prints the usage and exits with status 2
MainItems ==
    /\ pc = "validated"
    /\ \E its \in ItemLists :
          IF LabelSizeMissing(its, cfg)
          THEN /\ pc' = "usage_error"
               /\ items' = its
               /\ UNCHANGED <<cfg, expanded, idx, slots, row_x, row_y,
                              row_height, max_x_used, max_y_used, total_width,
                              total_length>>
               /\ UNCHANGED gridVars /\ UNCHANGED trayVars
          ELSE StartMixed(its)

\* one iteration of the loop, lines 194-254
MixedStep ==
    /\ pc = "mixed_loop"
    /\ idx <= Len(expanded)
    /\ LET e == expanded[idx]
           adv == x_advance(e, cfg)
           ecl == effective_cl(e, cfg)
       IN IF MixedOversize(e, cfg)
          THEN /\ pc' = "mixed_oversize"
               /\ UNCHANGED <<idx, slots, row_x, row_y, row_height, max_x_used,
                              max_y_used>>
          ELSE IF FitsCurrentRow(e, cfg, row_x, row_y)
          THEN /\ slots' = Append(slots, MixedSlot(e, cfg, row_x, row_y))
               /\ row_x' = row_x + adv
               /\ row_height' = Max(row_height, ecl)
               /\ max_x_used' = Max(max_x_used, slot_right(e, cfg, row_x + adv))
               /\ max_y_used' = Max(max_y_used, row_y + Max(row_height, ecl))
               /\ idx' = idx + 1
               /\ UNCHANGED <<pc, row_y>>
          ELSE LET ry == row_y + row_height + cfg.divider_thickness
               IN /\ row_y' = ry
                  /\ row_height' = ecl
                  /\ IF RowOverflows(e, cfg, ry)
                     THEN /\ pc' = "mixed_nofit"
                          /\ row_x' = 0
                          /\ UNCHANGED <<idx, slots, max_x_used, max_y_used>>
                     ELSE /\ slots' = Append(slots, MixedSlot(e, cfg, 0, ry))
                          /\ row_x' = adv
                          /\ max_x_used' = Max(max_x_used, slot_right(e, cfg, adv))
                          /\ max_y_used' = Max(max_y_used, ry + ecl)
                          /\ idx' = idx + 1
                          /\ UNCHANGED pc
    /\ UNCHANGED <<cfg, items, expanded, total_width, total_length>>
    /\ UNCHANGED gridVars /\ UNCHANGED trayVars

\* lines 256-263
MixedReturn ==
    /\ pc = "mixed_loop"
    /\ idx > Len(expanded)
    /\ total_width' = max_x_used
    /\ total_length' = max_y_used
    /\ pc' = "mixed_done"
    /\ UNCHANGED <<cfg, slots>> /\ UNCHANGED mixedVars /\ UNCHANGED gridVars
    /\ UNCHANGED trayVars

\* geometry.py: assemble_case -> build_base_tray; max() of no slot raises
Assemble ==
    /\ pc \in {"grid_done", "mixed_done"}
    /\ IF slots = <<>>
       THEN /\ pc' = "assemble_error"
            /\ UNCHANGED trayVars
       ELSE /\ pc' = "assembled"
            /\ outer_x' = OuterX(total_width, cfg)
            /\ outer_y' = OuterY(total_length, cfg)
            /\ cavities' = [k \in 1..Len(slots) |-> Cavity(slots[k], cfg)]
            /\ text_sizes' = LabelTextSizes(slots, cfg)
    /\ UNCHANGED <<cfg, slots, total_width, total_length>>
    /\ UNCHANGED mixedVars /\ UNCHANGED gridVars

\* geometry.py: render_to_file, the step that writes the output file
Render ==
    /\ pc = "assembled"
    /\ pc' = "rendered"
    /\ UNCHANGED <<cfg, slots, total_width, total_length>>
    /\ UNCHANGED mixedVars /\ UNCHANGED gridVars /\ UNCHANGED trayVars

\* cli.py: the status main exits with (an uncaught exception gives 1)
ExitCode(p) ==
    IF p = "rendered" THEN 0
    ELSE IF p = "usage_error" THEN 2
    ELSE 1

Next ==
    \/ Validate \/ GridLayout \/ MixedCall \/ MainItems \/ MixedStep
    \/ MixedReturn \/ Assemble \/ Render

Spec == Init /\ [][Next]_vars

InitText == InitWith(TextConfigs)
SpecText == InitText /\ [][Next]_vars

----------------------------------------------------------------------------
(* Vocabulary of the properties *)

\* the usable area as the specification words it
UsableX(c) ==
    max_x(c) - 2 * c.wall_thickness
    - (IF c.corner_radius > 0 THEN 2 * (c.corner_radius + 1) ELSE 0)
UsableY(c) ==
    max_y(c) - 2 * c.wall_thickness
    - (IF c.corner_radius > 0 THEN 2 * (c.corner_radius + 1) ELSE 0)

Ceil(a, b) == -((-a) \div b)

\* every rectangle of the result: slots, then the label areas they carry
Rects ==
    [k \in 1..Len(slots) |-> SlotRect2(slots[k])]
    \o
    [k \in 1..Cardinality({j \in 1..Len(slots) : HasLabelArea(slots[j])}) |->
        LabelRect2(slots[CHOOSE j \in 1..Len(slots) :
                            /\ HasLabelArea(slots[j])
                            /\ Cardinality({m \in 1..j : HasLabelArea(slots[m])}) = k],
                   cfg)]

NonEmpty(r) == r.x0 < r.x1 /\ r.y0 < r.y1
Overlap(a, b) ==
    /\ NonEmpty(a) /\ NonEmpty(b)
    /\ a.x0 < b.x1 /\ b.x0 < a.x1
    /\ a.y0 < b.y1 /\ b.y0 < a.y1

Inside(r, w, l) == 0 <= r.x0 /\ r.x1 <= 2 * w /\ 0 <= r.y0 /\ r.y1 <= 2 * l

GridReturned  == pc = "grid_done"
MixedReturned == pc = "mixed_done"
MixedEnded    == pc \in {"mixed_done", "mixed_oversize", "mixed_nofit"}

CellW == item[1] + cfg.clearance
CellL == item[2] + cfg.clearance

\* whole cells along an axis of extent u, as the specification words it
PerAxis(u, cell) == (u + cfg.divider_thickness) \div (cell + cfg.divider_thickness)
Capacity(cw, cl) ==
    Max(1, PerAxis(UsableX(cfg), cw)) * Max(1, PerAxis(UsableY(cfg), cl))

FitsUsable(cw, cl) == cw <= UsableX(cfg) /\ cl <= UsableY(cfg)

----------------------------------------------------------------------------
\* C1: every slot of a grid result lies within the usable inner area, and
\* so does the reported total extent, whichever orientation was selected.
C1_GridContainment ==
    GridReturned =>
        /\ \A k \in 1..Len(slots) :
              Inside(SlotRect2(slots[k]), UsableX(cfg), UsableY(cfg))
        /\ total_width <= UsableX(cfg)
        /\ total_length <= UsableY(cfg)

\* C2: the grid engine raises the oversize error exactly when the cell fits
\* the usable area in neither orientation.
C2_GridOversizeExactly ==
    (pc \in {"grid_done", "grid_error"}) =>
        (pc = "grid_error" <=>
            (~FitsUsable(CellW, CellL) /\ ~FitsUsable(CellL, CellW)))

\* C3: the extent a mixed result reports is the tight bounding box of its
\* slot rectangles and label rectangles, for both label directions.
RightEdges2 ==
    {Rects[k].x1 : k \in {j \in 1..Len(Rects) : NonEmpty(Rects[j])}} \cup {0}
BottomEdges2 ==
    {Rects[k].y1 : k \in {j \in 1..Len(Rects) : NonEmpty(Rects[j])}} \cup {0}
C3_MixedExtentIsBoundingBox ==
    MixedReturned =>
        /\ 2 * total_width \in RightEdges2
        /\ \A e \in RightEdges2 : e <= 2 * total_width
        /\ 2 * total_length \in BottomEdges2
        /\ \A e \in BottomEdges2 : e <= 2 * total_length

\* C4: no two rectangles of a returned layout (slots and label areas, of
\* either engine) have overlapping interiors.
C4_NonOverlap ==
    (GridReturned \/ MixedReturned) =>
        \A a, b \in 1..Len(Rects) : a # b => ~Overlap(Rects[a], Rects[b])

\* a label below a narrower slot, with another slot placed next in the row
C4_Witness ==
    /\ MixedReturned
    /\ ~label_dir_x(cfg)
    /\ \E k \in 1..(Len(slots) - 1) :
          /\ HasLabelArea(slots[k])
          /\ slots[k].label_width[1] > slots[k].width
          /\ slots[k + 1].y = slots[k].y
          /\ slots[k + 1].x > slots[k].x

OwnFootprintFits(e) ==
    /\ x_advance(e, cfg) - cfg.divider_thickness <= UsableX(cfg)
    /\ effective_cl(e, cfg) <= UsableY(cfg)
C6_OversizeAlwaysReported ==
    (MixedEnded /\ \E k \in 1..Len(expanded) : ~OwnFootprintFits(expanded[k]))
        => pc = "mixed_oversize"

\* C7: without count the grid reports the orientation of larger capacity,
\* the un-swapped one on a tie, and cols and rows equal
\* floor((inner + div) / (cell + div)) per axis for that orientation.
C7_GridOrientation ==
    (GridReturned /\ count = None) =>
        /\ cols * rows = Max(Capacity(CellW, CellL), Capacity(CellL, CellW))
        /\ Capacity(CellW, CellL) >= Capacity(CellL, CellW) =>
              (cell_width = CellW /\ cell_length = CellL)
        /\ cols = PerAxis(UsableX(cfg), cell_width)
        /\ rows = PerAxis(UsableY(cfg), cell_length)

\* C8: with count >= 1 the grid returns exactly min(capacity, count) slots,
\* capacity being cols x rows of the chosen orientation.
C8_CountCapping ==
    (GridReturned /\ count # None /\ count[1] >= 1) =>
        Len(slots) = Min(Capacity(cell_width, cell_length), count[1])

\* a count below the capacity, and a grid of more than one row
C8_Witness ==
    /\ GridReturned
    /\ count # None /\ count[1] >= 1
    /\ count[1] < Capacity(cell_width, cell_length)
    /\ Len(slots) = count[1]
    /\ rows >= 2

\* the slots of a grid result that lie in row r (counted from 0)
InRow(r) ==
    {k \in 1..Len(slots) :
        slots[k].y = r * (cell_length + cfg.divider_thickness)}
Columns == Max(1, PerAxis(UsableX(cfg), cell_width))
RowsFilled ==
    /\ \A r \in 0..(rows - 2) : Cardinality(InRow(r)) = Columns
    /\ rows >= 1 => Cardinality(InRow(rows - 1)) \in 1..Columns
    /\ \A k \in 1..Len(slots) : \E r \in 0..(rows - 1) : k \in InRow(r)

\* C9 as stated: with count given, rows = ceil(count / columns), every row
\* but the last is full and only the last may be short.
C9_RowsUnderCap ==
    (GridReturned /\ count # None) =>
        /\ rows = Ceil(count[1], Columns)
        /\ RowsFilled

\* C9 amended: with count given, rows = ceil(min(capacity, count) / columns),
\* every row but the last is full and only the last may be short.
C9_RowsUnderCapAmended ==
    (GridReturned /\ count # None) =>
        /\ rows = Ceil(Min(Capacity(cell_width, cell_length), count[1]), Columns)
        /\ RowsFilled

\* a capped grid of two rows or more whose last row is short
C9_Witness ==
    /\ GridReturned
    /\ count # None
    /\ rows >= 2
    /\ Cardinality(InRow(rows - 1)) < Columns
    /\ count[1] < Capacity(cell_width, cell_length)

\* C10: the slots of a mixed result are the expansion of the item specs
\* (each repeated count times, dimensions + clearance, label carried) in
\* descending order of width x length, equal areas in input order.
CountUpTo[n \in 0..Len(items)] ==
    IF n = 0 THEN 0 ELSE CountUpTo[n - 1] + items[n].count
\* the spec that the j-th entry of the expansion comes from
SpecOf(j) == CHOOSE n \in 1..Len(items) : CountUpTo[n - 1] < j /\ j <= CountUpTo[n]
AreaOf(j) ==
    (items[SpecOf(j)].width + cfg.clearance)
    * (items[SpecOf(j)].length + cfg.clearance)
\* where the j-th entry stands after a stable descending sort
Rank(j) ==
    Cardinality({m \in 1..CountUpTo[Len(items)] : AreaOf(m) > AreaOf(j)})
    + Cardinality({m \in 1..j : AreaOf(m) = AreaOf(j)})
C10_MixedOrderComplete ==
    MixedReturned =>
        /\ Len(slots) = CountUpTo[Len(items)]
        /\ \A j \in 1..CountUpTo[Len(items)] :
              LET s == slots[Rank(j)]
                  it == items[SpecOf(j)]
              IN /\ s.width = it.width + cfg.clearance
                 /\ s.length = it.length + cfg.clearance
                 /\ s.height = it.height + cfg.clearance
                 /\ s.label_text = it.label

\* two specs of equal area and different shape, the first of them twice
C10_Witness ==
    /\ MixedReturned
    /\ Len(items) = 2
    /\ items[1].count = 2 /\ items[2].count = 1
    /\ items[1].width * items[1].length = items[2].width * items[2].length
    /\ items[1].width # items[2].width
    /\ cfg.clearance = 0
    /\ Len(slots) = 3

\* C11: once items ask for a label and the Config has no label size, the
\* request is rejected before any layout is computed: the mixed engine is
\* never entered, and a run of main ends with exit code 1.
LayoutEntered ==
    pc \in {"mixed_loop", "mixed_done", "mixed_oversize", "mixed_nofit",
            "assembled", "assemble_error", "rendered"}
C11_MissingLabelSizeRejected ==
    LabelSizeMissing(items, cfg) =>
        /\ ~LayoutEntered
        /\ ExitCode(pc) = 1

\* C12: in every run the output file is written only after validate and
\* the layout engine returned without error; once either has raised,
\* nothing more is invoked; and every failing run fails before
\* assemble_case is called.
Raised == {"config_error", "grid_error", "mixed_oversize", "mixed_nofit"}
Failed == Raised \cup {"usage_error", "assemble_error"}
LayoutReturned == {"grid_done", "mixed_done"}
C12_PipelineOrder ==
    [][/\ pc' = "rendered" => pc = "assembled"
       /\ pc' \in {"assembled", "assemble_error"} => pc \in LayoutReturned
       /\ pc' \in LayoutReturned => pc \in {"validated", "mixed_loop"}
       /\ pc \in Raised => (pc' = pc /\ ExitCode(pc) = 1)
       /\ (pc' \in Failed /\ pc' # pc) =>
             pc \in {"new", "validated", "mixed_loop"}]_vars

\* the slot that the k-th engraved text belongs to
LabelledSlot(k) ==
    slots[CHOOSE j \in 1..Len(slots) :
            /\ HasLabelArea(slots[j])
            /\ Cardinality({m \in 1..j : HasLabelArea(slots[m])}) = k]
\* a text of n characters at size t (1/360 mm) stays within 85% of the
\* label rectangle on both axes; each character is 0.6 x t wide, and with
\* direction X the text is turned by 90 degrees
TextFits(t, n) ==
    IF label_dir_x(cfg)
    THEN /\ 20 * t <= 17 * TextUnit * label_w(cfg)
         /\ 20 * 6 * n * t <= 17 * 10 * TextUnit * label_l(cfg)
    ELSE /\ 20 * t <= 17 * TextUnit * label_l(cfg)
         /\ 20 * 6 * n * t <= 17 * 10 * TextUnit * label_w(cfg)
Configured == cfg.label_text_size * TextUnit
Floor25 == (5 * TextUnit) \div 2
Assembled == pc \in {"assembled", "rendered"}

\* C13 as stated: the size of every engraved text is the larger of the
\* configured size and the largest size that fits, and never below 2.5.
C13_TextSizeLarger ==
    Assembled =>
        \A k \in 1..Len(text_sizes) :
            LET t == text_sizes[k]
                n == TextLen(LabelledSlot(k).label_text[1])
            IN /\ t >= Floor25
               /\ t >= Configured
               /\ \/ t = Configured /\ ~TextFits(t + 1, n)
                  \/ TextFits(t, n) /\ ~TextFits(t + 1, n)

\* C13 amended: the size of every engraved text is the smaller of the
\* configured size and the largest size that fits, raised to 2.5 where
\* that is below 2.5.
C13_TextSizeSmaller ==
    Assembled =>
        \A k \in 1..Len(text_sizes) :
            LET t == text_sizes[k]
                n == TextLen(LabelledSlot(k).label_text[1])
            IN /\ t >= Floor25
               /\ t > Floor25 =>
                     /\ t <= Configured
                     /\ TextFits(t, n)
                     /\ t = Configured \/ ~TextFits(t + 1, n)
               /\ t = Floor25 =>
                     Configured <= Floor25 \/ ~TextFits(Floor25 + 1, n)

\* a three-character text that the label area, not the configuration,
\* limits to a size above the floor
C13_Witness ==
    /\ Assembled
    /\ \E k \in 1..Len(text_sizes) :
          /\ TextLen(LabelledSlot(k).label_text[1]) = 3
          /\ text_sizes[k] > Floor25
          /\ text_sizes[k] < Configured

\* C14: every cavity cut by build_base_tray stays at least wall + inset
\* away from all four edges of the outer box footprint, whether that is a
\* fixed case size or derived from the layout's total extent.
WallInset ==
    cfg.wall_thickness
    + (IF cfg.corner_radius > 0 THEN cfg.corner_radius + 1 ELSE 0)
C14_WallPreserved ==
    Assembled =>
        \A k \in 1..Len(cavities) :
            /\ cavities[k].x0 >= WallInset
            /\ cavities[k].y0 >= WallInset
            /\ outer_x - cavities[k].x1 >= WallInset
            /\ outer_y - cavities[k].y1 >= WallInset

\* C15: every result an engine returns holds at least one slot (and a grid
\* result at least one row), so assemble_case raises no error of its own.
C15_ResultNeverEmpty ==
    /\ (GridReturned \/ MixedReturned) => Len(slots) >= 1
    /\ GridReturned => rows >= 1
    /\ pc # "assemble_error"

====
